---- MODULE Spec2Model ----
(***************************************************************************)
(* The durable outbound pipeline of lib/countly.js: the request queue, the *)
(* event buffer, the heartBeat loop with single-flight dispatch and        *)
(* failure backoff, makeRequest's completion paths, the write-serialised   *)
(* key/value store, the device identity, and the forwarding of a worker's  *)
(* calls to the coordinating (master) process.                             *)
(*                                                                         *)
(* Scope of the model: consent not required (Countly.require_consent is    *)
(* falsy, so every check_consent is true), no remote_config in the conf,   *)
(* init with a non-empty server URL.                                       *)
(*                                                                         *)
(* Specifications: Spec and LiveSpec are the owner after Countly.init on a *)
(* first launch; HaltSpec adds Countly.halt and a second Countly.init;     *)
(* CrashSpec adds the uncaughtException handler of Countly.track_errors;   *)
(* WorkerSpec is a worker process; ClusterSpec is the owner with the       *)
(* messages of its workers and Countly.change_id, ClusterHaltSpec the same *)
(* with Countly.halt and a second Countly.init; IdentitySpec starts the    *)
(* owner on the identity files of an earlier run; TransportSpec gives the  *)
(* responses of the server a status and a body; StoreSpec and              *)
(* StoreLiveSpec are the key/value store on its own, called in any order   *)
(* on files of any content, StoreFailSpec the same with file writes that   *)
(* fail; ChangeSpec is the owner with sessions and Countly.change_id,      *)
(* ViewSpec the same with Countly.track_view and events; ResetSpec is      *)
(* TransportSpec with connections that fail while a response is read.      *)
(*                                                                         *)
(* A request is [id, kind, events] and the identity fields stamped on it:  *)
(* id is the order in which the request entered the queue (it stands for   *)
(* the object's identity; a stamped request carries the strictly           *)
(* increasing getMsTimestamp value).                                       *)
(***************************************************************************)
EXTENDS Integers, Sequences, FiniteSets, TLC

\* ---- bounds of the model ----
MaxCalls == 3     \* calls of the producer API that change the state, in one run
MaxTime == 3      \* the clock stops advancing here
MaxLag == 0       \* unfinished file writes a handler may find when it starts

\* ---- configuration (Countly.init) ----
queueSize == 1
maxEventBatch == 2
failTimeoutAmount == 1
sessionUpdate == 1

VARIABLES
    inited, app_key, device_id, test_mode,
    requestQueue, eventQueue,
    readyToProcess, failTimeout,
    sessionStarted, autoExtend, trackTime, lastBeat,
    remoteConfigs,
    data, asyncWriteLock, asyncWriteQueue, writing, writeTimer, disk,
    quarantine, exited,
    http, heartBeatTimers, now, nextId, nextEv,
    sent, delivered, evicted, calls,
    cluster, ipc, deviceIdType, lastView

vars == << inited, app_key, device_id, test_mode, requestQueue, eventQueue,
           readyToProcess, failTimeout, sessionStarted, autoExtend, trackTime,
           lastBeat, remoteConfigs, data, asyncWriteLock, asyncWriteQueue,
           writing, writeTimer, disk, quarantine, exited, http,
           heartBeatTimers, now, nextId, nextEv, sent, delivered, evicted,
           calls, cluster, ipc, deviceIdType, lastView >>

NULL == "null"

\* The worker processes the owner can fork.
WorkerIds == {"w1", "w2"}
Keys == {"cly_queue", "cly_event", "cly_id", "cly_id_type", "cly_remote_configs"}

\* Values held by the cache and by queued writes.  An array is held by
\* reference: Live is the array the variable (requestQueue / eventQueue)
\* currently names, Val(x) is anything else (a scalar, or an array no variable
\* names any more, whose content can no longer change).
Undefined == [t |-> "undefined"]
Live == [t |-> "live"]
Val(x) == [t |-> "v", v |-> x]

\* What a file of the store can hold: nothing (no file), text that is not
\* JSON (an empty file included), or a JSON object, given by its fields.
Absent == [t |-> "absent"]
Corrupt == [t |-> "corrupt"]
Empty == [t |-> "empty"]
Object(fields) == [t |-> "object", ob |-> fields]

\* The fs.writeFile calls that have not called back: none.
NoWrite == << >>

\* The whole mutable state as one record, so that a handler is a function
\* from state to state and handlers compose as the calls in the source do.
State ==
    [ inited |-> inited, app_key |-> app_key, device_id |-> device_id,
      test_mode |-> test_mode, requestQueue |-> requestQueue,
      eventQueue |-> eventQueue, readyToProcess |-> readyToProcess,
      failTimeout |-> failTimeout, sessionStarted |-> sessionStarted,
      autoExtend |-> autoExtend, trackTime |-> trackTime, lastBeat |-> lastBeat,
      remoteConfigs |-> remoteConfigs, data |-> data,
      asyncWriteLock |-> asyncWriteLock, asyncWriteQueue |-> asyncWriteQueue,
      writing |-> writing, writeTimer |-> writeTimer, disk |-> disk,
      quarantine |-> quarantine, exited |-> exited,
      http |-> http, heartBeatTimers |-> heartBeatTimers, now |-> now,
      nextId |-> nextId, nextEv |-> nextEv,
      sent |-> sent, delivered |-> delivered, evicted |-> evicted,
      calls |-> calls, cluster |-> cluster, ipc |-> ipc,
      deviceIdType |-> deviceIdType, lastView |-> lastView ]

\* Writes started or queued and not yet called back.
Backlog == Len(asyncWriteQueue) + Len(writing)

\* The next state is `next`, within the bounds of the model.
Becomes(next) == \E s \in {next} :
    /\ ~exited
    /\ s.calls <= MaxCalls /\ calls' = s.calls
    /\ heartBeatTimers' = s.heartBeatTimers /\ now' = s.now
    /\ inited' = s.inited /\ app_key' = s.app_key /\ device_id' = s.device_id
    /\ test_mode' = s.test_mode /\ requestQueue' = s.requestQueue
    /\ eventQueue' = s.eventQueue /\ readyToProcess' = s.readyToProcess
    /\ failTimeout' = s.failTimeout /\ sessionStarted' = s.sessionStarted
    /\ autoExtend' = s.autoExtend /\ trackTime' = s.trackTime
    /\ lastBeat' = s.lastBeat /\ remoteConfigs' = s.remoteConfigs
    /\ data' = s.data /\ asyncWriteLock' = s.asyncWriteLock
    /\ asyncWriteQueue' = s.asyncWriteQueue /\ writing' = s.writing
    /\ writeTimer' = s.writeTimer /\ disk' = s.disk /\ http' = s.http
    /\ quarantine' = s.quarantine /\ exited' = s.exited
    /\ nextId' = s.nextId /\ nextEv' = s.nextEv
    /\ sent' = s.sent /\ delivered' = s.delivered /\ evicted' = s.evicted
    /\ cluster' = s.cluster /\ ipc' = s.ipc
    /\ deviceIdType' = s.deviceIdType /\ lastView' = s.lastView

\* A handler of the program ran and left the state `next`.  (A handler starts
\* only when at most MaxLag file writes are unfinished.)
Handler(next) == Backlog <= MaxLag /\ Becomes(next)

\* ---- PersistentStore ----

\* What JSON.stringify sees when a write of `value` under `key` starts.
Content(s, key, value) ==
    IF value.t = "live"
    THEN (IF key = "cly_queue" THEN Val(s.requestQueue) ELSE Val(s.eventQueue))
    ELSE value

\* JSON.stringify(ob) for ob = {key: value}: a field whose value is undefined
\* is left out.
Stringify(key, content) ==
    IF content = Undefined THEN Object(<< >>) ELSE Object(key :> content.v)

\* writeFile(key, value): stringify now, hand the text to fs.writeFile.
\* (`was` is history: the content the value had at the storeSet call that this
\* write belongs to.)
writeFile(s, key, value) ==
    [s EXCEPT !.writing =
        Append(@, [key |-> key, content |-> Content(s, key, value),
                   was |-> Content(s, key, value)])]

\* storeSet with the queued write put in front of the waiting ones.
storeSet_queuesAtHead(s, key, value) ==
    LET c == [s EXCEPT !.data[key] = value] IN
    IF ~c.asyncWriteLock
    THEN writeFile([c EXCEPT !.asyncWriteLock = TRUE], key, value)
    ELSE [c EXCEPT !.asyncWriteQueue =
              << [key |-> key, value |-> value,
                  was |-> Content(c, key, value)] >> \o @]

\* storeSet that caches the value only when it starts the write itself.
storeSet_cachesWhenWriting(s, key, value) ==
    IF ~s.asyncWriteLock
    THEN writeFile([s EXCEPT !.data[key] = value, !.asyncWriteLock = TRUE],
                   key, value)
    ELSE [s EXCEPT !.asyncWriteQueue =
              Append(@, [key |-> key, value |-> value,
                         was |-> Content(s, key, value)])]

\* storeSet(key, value): cache first, then write or queue behind the lock.
storeSet(s, key, value) ==
    LET c == [s EXCEPT !.data[key] = value] IN
    IF ~c.asyncWriteLock
    THEN writeFile([c EXCEPT !.asyncWriteLock = TRUE], key, value)
    ELSE [c EXCEPT !.asyncWriteQueue =
              Append(@, [key |-> key, value |-> value,
                         was |-> Content(c, key, value)])]

\* readFile(key): the parsed file; null when there is no file (JSON.parse(null))
\* and when the text does not parse.
ParsedNull == [t |-> "null"]
readFile(s, key) ==
    IF s.disk[key].t = "object" THEN s.disk[key] ELSE ParsedNull

\* readFile(key), the catch of JSON.parse: a copy of the text is written
\* beside the file (fs.writeFile with an empty callback).
\* readFile without the backup copy.
backup_skipsCopy(s, key) == s

backup(s, key) ==
    IF s.disk[key] \in {Corrupt, Empty}
    THEN [s EXCEPT !.quarantine =
              @ \cup {[key |-> key, content |-> s.disk[key], written |-> FALSE]}]
    ELSE s

\* The branch of storeGet with `ob[key] || def` for the stored value.
loaded_defaultsFalsy(s, key, def) ==
    LET ob == readFile(s, key) IN
    IF ob = ParsedNull THEN Val(def)
    ELSE IF DOMAIN ob.ob = {} THEN Val(def)
    ELSE IF key \in DOMAIN ob.ob
    THEN (IF ob.ob[key] = [j |-> "null"] THEN Val(def) ELSE Val(ob.ob[key]))
    ELSE Undefined

\* storeGet(key, def), the branch taken when the key is not cached: what the
\* cache slot gets.  `!ob || obLen === 0` gives the default, else ob[key],
\* which is undefined when the object lacks the key.
loaded(s, key, def) ==
    LET ob == readFile(s, key) IN
    IF ob = ParsedNull THEN Val(def)
    ELSE IF DOMAIN ob.ob = {} THEN Val(def)
    ELSE IF key \in DOMAIN ob.ob THEN Val(ob.ob[key])
    ELSE Undefined

\* storeGet(key, def): the cache slot it returns (Undefined for undefined).
storeGetSlot(s, key, def) ==
    IF s.data[key] # Undefined THEN s.data[key] ELSE loaded(s, key, def)

\* storeGet(key, def) for the two arrays init loads: the cached array when the
\* key is cached, else the array the file holds, else the default (empty).
\* Either way the cache and the caller share the one array afterwards.
storeGetArray(s, key, current) ==
    IF s.data[key] # Undefined THEN current
    ELSE IF loaded(s, key, << >>) = Undefined THEN << >>
    ELSE loaded(s, key, << >>).v

\* storeGet(key, def) for a scalar (a string; "undefined" for undefined).
storeGet(s, key, def) ==
    IF storeGetSlot(s, key, def) = Undefined THEN "undefined"
    ELSE storeGetSlot(s, key, def).v

\* The state after storeGet(key, def): when the key was not cached the file
\* was read (a corrupt one copied) and the slot filled.
cached(s, key, def) ==
    IF s.data[key] # Undefined THEN s
    ELSE [backup(s, key) EXCEPT !.data[key] = loaded(s, key, def)]

\* ---- RequestQueue ----

\* process.send({cly: msg}) in a worker process.
Message(op, kind, events, newId, merge) ==
    [op |-> op, kind |-> kind, events |-> events, newId |-> newId,
     merge |-> merge, from |-> NULL]
send(s, msg) == [s EXCEPT !.ipc = Append(@, msg)]

\* A request object as a producer builds it: no identity field yet.
Missing == "missing"
Request(id, kind, events) ==
    [id |-> id, kind |-> kind, events |-> events,
     app_key |-> Missing, device_id |-> Missing, stamp |-> {}]

\* The fields prepareRequest adds besides app_key and device_id.
StampFields == {"sdk_name", "sdk_version", "t", "timestamp", "hour", "dow"}

\* prepareRequest that leaves out the clock fields.
prepareRequest_omitsClock(s, request) ==
    [request EXCEPT !.app_key = s.app_key, !.device_id = s.device_id,
                    !.stamp = @ \cup {"sdk_name", "sdk_version", "t"}]

\* prepareRequest(request): the identity of the moment is written into it.
prepareRequest(s, request) ==
    [request EXCEPT !.app_key = s.app_key, !.device_id = s.device_id,
                    !.stamp = @ \cup StampFields]

Ids(q) == [i \in 1..Len(q) |-> q[i].id]

\* toRequestQueue without the test of app_key and device_id.
toRequestQueue_skipsValidation(s, kind, events) ==
    IF ~s.cluster.isMaster
    THEN send(s, Message("cly_queue", kind, events, NULL, FALSE))
    ELSE
    LET over == Len(s.requestQueue) > queueSize
        kept == IF over THEN Tail(s.requestQueue) ELSE s.requestQueue
        gone == IF over THEN {Head(s.requestQueue).id} ELSE {}
        q == Append(kept, prepareRequest(s, Request(s.nextId, kind, events)))
    IN  storeSet([s EXCEPT !.requestQueue = q, !.nextId = @ + 1,
                           !.evicted = @ \cup gone],
                 "cly_queue", Live)

\* toRequestQueue(request): the owner enqueues, a worker sends the request.
toRequestQueue(s, kind, events) ==
    IF ~s.cluster.isMaster
    THEN send(s, Message("cly_queue", kind, events, NULL, FALSE))
    ELSE IF s.app_key = NULL \/ s.device_id = NULL THEN s
    ELSE
        LET over == Len(s.requestQueue) > queueSize
            kept == IF over THEN Tail(s.requestQueue) ELSE s.requestQueue
            gone == IF over THEN {Head(s.requestQueue).id} ELSE {}
            q == Append(kept,
                        prepareRequest(s, Request(s.nextId, kind, events)))
        IN  storeSet([s EXCEPT !.requestQueue = q, !.nextId = @ + 1,
                               !.evicted = @ \cup gone],
                     "cly_queue", Live)

\* The request a caller of Countly.request passes when it is valid: app_key
\* and device_id of the caller's choice and nothing else of the identity.
Raw(id) ==
    [Request(id, "raw", << >>) EXCEPT !.app_key = "raw_key",
                                      !.device_id = "raw_id"]

\* Countly.request(request); `valid` says whether the request carries app_key
\* and device_id.
request(s, valid) ==
    IF ~valid THEN s
    ELSE IF ~s.cluster.isMaster THEN send(s, Message("request", "raw", << >>, NULL, FALSE))
    ELSE storeSet([s EXCEPT !.requestQueue = Append(@, Raw(s.nextId)),
                            !.nextId = @ + 1],
                  "cly_queue", Live)

\* ---- EventBatcher ----

\* add_cly_events(event), for an event with a key.
add_cly_events(s) ==
    IF ~s.cluster.isMaster THEN send(s, Message("event", "event", << >>, NULL, FALSE))
    ELSE
    storeSet([s EXCEPT !.eventQueue = Append(@, s.nextEv), !.nextEv = @ + 1],
             "cly_event", Live)

\* `eventQueue = []`: the variable names a new array; every reference to the
\* old one (in the cache, in queued writes) keeps the old content for good.
Freeze(value, old) == IF value.t = "live" THEN Val(old) ELSE value

newEventQueue(s) ==
    [s EXCEPT
        !.eventQueue = << >>,
        !.data["cly_event"] = Freeze(@, s.eventQueue),
        !.asyncWriteQueue =
            [i \in 1..Len(@) |->
                IF @[i].key = "cly_event"
                THEN [@[i] EXCEPT !.value = Freeze(@, s.eventQueue)]
                ELSE @[i]]]

\* ---- sessions ----

\* Countly.begin_session(noHeartBeat)
begin_session(s, noHeartBeat) ==
    IF s.sessionStarted THEN s
    ELSE toRequestQueue([s EXCEPT !.lastBeat = s.now, !.sessionStarted = TRUE,
                                  !.autoExtend = ~noHeartBeat],
                        "begin_session", << >>)

\* Countly.session_duration(sec): the request's payload is the seconds.
session_duration(s, sec) ==
    IF s.sessionStarted
    THEN toRequestQueue(s, "session_duration", << sec >>)
    ELSE s

\* reportViewDuration(): the duration event of the view that is open.
reportViewDuration(s) ==
    IF s.lastView # NULL
    THEN [add_cly_events(s) EXCEPT !.lastView = NULL]
    ELSE s

\* Countly.track_view(name), with a name: the open view is reported, the new
\* one is recorded as open and its visit event is added.
track_view(s, name) ==
    add_cly_events([reportViewDuration(s) EXCEPT !.lastView = name])

\* Countly.end_session()
end_session(s) ==
    IF s.sessionStarted
    THEN toRequestQueue([reportViewDuration(s) EXCEPT !.sessionStarted = FALSE],
                        "end_session", << >>)
    ELSE s

\* Countly.change_id that replaces the identity before it queues anything.
change_id_changesFirst(s, newId, merge) ==
    IF ~s.cluster.isMaster
    THEN send(s, Message("change_id", "change_id", << >>, newId, merge))
    ELSE IF s.device_id = newId THEN s
    ELSE LET changed ==
                 storeSet(storeSet([s EXCEPT !.device_id = newId,
                                             !.deviceIdType = "DEVELOPER_SUPPLIED"],
                                   "cly_id", Val(newId)),
                          "cly_id_type", Val("DEVELOPER_SUPPLIED"))
             flushed ==
                 IF merge THEN changed
                 ELSE end_session(
                          IF Len(changed.eventQueue) > 0
                          THEN storeSet(newEventQueue(
                                   toRequestQueue(changed, "events", changed.eventQueue)),
                                   "cly_event", Live)
                          ELSE changed)
         IN  IF merge
             THEN toRequestQueue(flushed, "old_device_id", << >>)
             ELSE begin_session(flushed, ~flushed.autoExtend)

\* Countly.change_id that keeps the new type in memory only.
change_id_skipsTypeStore(s, newId, merge) ==
    IF ~s.cluster.isMaster
    THEN send(s, Message("change_id", "change_id", << >>, newId, merge))
    ELSE IF s.device_id = newId THEN s
    ELSE LET flushed ==
                 IF merge THEN s
                 ELSE end_session(
                          IF Len(s.eventQueue) > 0
                          THEN storeSet(newEventQueue(
                                   toRequestQueue(s, "events", s.eventQueue)),
                                   "cly_event", Live)
                          ELSE s)
             changed ==
                 storeSet([flushed EXCEPT !.device_id = newId,
                                          !.deviceIdType = "DEVELOPER_SUPPLIED"],
                          "cly_id", Val(newId))
         IN  IF merge
             THEN toRequestQueue(changed, "old_device_id", << >>)
             ELSE begin_session(changed, ~changed.autoExtend)

\* Countly.change_id(newId, merge), without remote_config.  With merge off the
\* buffered events and the end of the session are queued first, under the
\* identity in use; the identity is replaced and stored after them.
change_id(s, newId, merge) ==
    IF ~s.cluster.isMaster
    THEN send(s, Message("change_id", "change_id", << >>, newId, merge))
    ELSE IF s.device_id = newId THEN s
    ELSE LET flushed ==
                 IF merge THEN s
                 ELSE end_session(
                          IF Len(s.eventQueue) > 0
                          THEN storeSet(newEventQueue(
                                   toRequestQueue(s, "events", s.eventQueue)),
                                   "cly_event", Live)
                          ELSE s)
             changed ==
                 storeSet(storeSet([flushed EXCEPT !.device_id = newId,
                                                   !.deviceIdType = "DEVELOPER_SUPPLIED"],
                                   "cly_id", Val(newId)),
                          "cly_id_type", Val("DEVELOPER_SUPPLIED"))
         IN  IF merge
             THEN toRequestQueue(changed, "old_device_id", << >>)
             ELSE begin_session(changed, ~changed.autoExtend)

\* handleWorkerMessage that puts a forwarded request at the head of the queue.
handleWorkerMessage_jumpsQueue(s, msg) ==
    IF msg.op = "cly_queue"
    THEN LET r == toRequestQueue(s, msg.kind, msg.events)
             n == Len(r.requestQueue)
         IN  IF n > 1 /\ r.nextId # s.nextId
             THEN [r EXCEPT !.requestQueue = << @[n] >> \o SubSeq(@, 1, n - 1)]
             ELSE r
    ELSE IF msg.op = "change_id" THEN change_id(s, msg.newId, msg.merge)
    ELSE IF msg.op = "event" THEN add_cly_events(s)
    ELSE request(s, TRUE)

\* handleWorkerMessage(msg): the owner does what the worker asked for.
handleWorkerMessage(s, msg) ==
    IF msg.op = "cly_queue" THEN toRequestQueue(s, msg.kind, msg.events)
    ELSE IF msg.op = "change_id" THEN change_id(s, msg.newId, msg.merge)
    ELSE IF msg.op = "event" THEN add_cly_events(s)
    ELSE request(s, TRUE)

\* ---- Transport ----

\* A status code (res.statusCode), or none.
Status(code) == [given |-> TRUE, code |-> code]
NoStatus == [given |-> FALSE, code |-> 0]

\* A response body, by its form: the text of a JSON object with the given
\* fields, the text of a JSON array of so many items, text that is not JSON,
\* the empty text, or a value that is not a string at all.
Body(form, fields, items) == [form |-> form, fields |-> fields, items |-> items]
NonString == Body("value", {}, 0)
Texts ==
    {Body("object", {"result"}, 0), Body("object", {"endResult"}, 0),
     Body("object", {}, 0), Body("array", {}, 0), Body("array", {}, 2),
     Body("text", {}, 0), Body("empty", {}, 0)}

Response(statusCode, str) == [arrived |-> TRUE, statusCode |-> statusCode, str |-> str]
NoResponse == [arrived |-> FALSE, statusCode |-> NoStatus, str |-> Body("empty", {}, 0)]

\* cc.isResponseValid(statusCode, str) and cc.isResponseValidBroad(statusCode,
\* str) of countly-common: a status in [200, 300) and a body that is the text
\* of a JSON object with a result field (strict), of any JSON object or array
\* (broad).
Is2xx(statusCode) == statusCode.given /\ statusCode.code >= 200 /\ statusCode.code < 300
isResponseValid(statusCode, str) ==
    Is2xx(statusCode) /\ str.form = "object" /\ "result" \in str.fields
isResponseValidBroad(statusCode, str) ==
    Is2xx(statusCode) /\ str.form \in {"object", "array"}

\* makeRequest, res.on("end") with a callback that is always told success.
responseEnd_reportsSuccess(isBroad, statusCode, str) == FALSE

\* makeRequest, res.on("end") with the strict validation for every caller.
responseEnd_alwaysStrict(isBroad, statusCode, str) ==
    ~isResponseValid(statusCode, str)

\* makeRequest, res.on("end"): the `err` the callback gets.
responseEnd(isBroad, statusCode, str) ==
    LET isResponseValidated ==
            IF isBroad THEN isResponseValidBroad(statusCode, str)
            ELSE isResponseValid(statusCode, str)
    IN  ~isResponseValidated

\* An outstanding HTTP request: who issued it and with which params.  For a
\* queue dispatch, `before` is the queue as it was before the pop and `mark`
\* the id the next enqueue was going to get (history, read by no handler).
\* `res` is the response once it has arrived: res.statusCode and the text
\* `str` put together from its chunks.
Dispatch(params, before, mark) ==
    [info |-> "heartBeat", params |-> params, before |-> before, mark |-> mark,
     res |-> NoResponse]
Fetch == [info |-> "fetch_remote_config", params |-> Request(0, "fetch", << >>),
          before |-> << >>, mark |-> 0, res |-> NoResponse]

RemoveAt(q, i) == [j \in 1..(Len(q) - 1) |-> IF j < i THEN q[j] ELSE q[j + 1]]

\* Variants of the callback that the properties below must tell apart from it:
\* one restores a failed request at the tail, one keeps a delivered request,
\* one forgets a failed request.
heartBeatCallback_restoresAtTail(s, err, res) ==
    LET r == IF err
             THEN [s EXCEPT !.requestQueue = Append(@, res),
                            !.failTimeout = s.now + failTimeoutAmount]
             ELSE [s EXCEPT !.delivered = @ \cup {res.id}]
    IN  [storeSet(r, "cly_queue", Live) EXCEPT !.readyToProcess = TRUE]

heartBeatCallback_keepsDelivered(s, err, res) ==
    LET r == IF err
             THEN [s EXCEPT !.requestQueue = << res >> \o @,
                            !.failTimeout = s.now + failTimeoutAmount]
             ELSE [s EXCEPT !.requestQueue = << res >> \o @,
                            !.delivered = @ \cup {res.id}]
    IN  [storeSet(r, "cly_queue", Live) EXCEPT !.readyToProcess = TRUE]

heartBeatCallback_dropsFailed(s, err, res) ==
    LET r == IF err
             THEN [s EXCEPT !.failTimeout = s.now + failTimeoutAmount]
             ELSE [s EXCEPT !.delivered = @ \cup {res.id}]
    IN  [storeSet(r, "cly_queue", Live) EXCEPT !.readyToProcess = TRUE]

\* The callback heartBeat passes to makeRequest.
heartBeatCallback(s, err, res) ==
    LET r == IF err
             THEN [s EXCEPT !.requestQueue = << res >> \o @,
                            !.failTimeout = s.now + failTimeoutAmount]
             ELSE [s EXCEPT !.delivered = @ \cup {res.id}]
    IN  [storeSet(r, "cly_queue", Live) EXCEPT !.readyToProcess = TRUE]

\* The callback fetch_remote_config passes to makeRequest: JSON.parse of the
\* response text succeeds only when there is one.
fetchCallback(s, err) ==
    IF err THEN s
    ELSE storeSet([s EXCEPT !.remoteConfigs = "fetched"],
                  "cly_remote_configs", Val("fetched"))

\* ---- DispatchLoop ----

\* The session extension of a tick that also runs when exactly sessionUpdate
\* has passed.
extendSession_atThreshold(s) ==
    IF s.sessionStarted /\ s.autoExtend /\ s.trackTime
       /\ s.now - s.lastBeat >= sessionUpdate
    THEN [session_duration(s, s.now - s.lastBeat) EXCEPT !.lastBeat = s.now]
    ELSE s

\* heartBeat, step 1: extend the session.
extendSession(s) ==
    IF s.sessionStarted /\ s.autoExtend /\ s.trackTime
       /\ s.now - s.lastBeat > sessionUpdate
    THEN [session_duration(s, s.now - s.lastBeat) EXCEPT !.lastBeat = s.now]
    ELSE s

\* heartBeat, step 2: flush the event buffer.
flushEvents(s) ==
    IF Len(s.eventQueue) = 0 THEN s
    ELSE IF Len(s.eventQueue) <= maxEventBatch
    THEN storeSet(newEventQueue(toRequestQueue(s, "events", s.eventQueue)),
                  "cly_event", Live)
    ELSE LET events == SubSeq(s.eventQueue, 1, maxEventBatch)
             rest == SubSeq(s.eventQueue, maxEventBatch + 1, Len(s.eventQueue))
         IN  storeSet(toRequestQueue([s EXCEPT !.eventQueue = rest],
                                     "events", events),
                      "cly_event", Live)

\* Variants of the guard: one without the single-flight flag, one that lets a
\* dispatch start at the backoff deadline itself.
canDispatch_ignoresReady(s) ==
    /\ Len(s.requestQueue) > 0
    /\ s.now > s.failTimeout
    /\ ~s.test_mode

canDispatch_atDeadline(s) ==
    /\ Len(s.requestQueue) > 0
    /\ s.readyToProcess
    /\ s.now >= s.failTimeout
    /\ ~s.test_mode

\* The guard of heartBeat's step 3.
canDispatch(s) ==
    /\ Len(s.requestQueue) > 0
    /\ s.readyToProcess
    /\ s.now > s.failTimeout
    /\ ~s.test_mode

\* Variants of step 3: one hands over the newest request, one leaves the
\* single-flight flag up.
dispatch_popsNewest(s, throws) ==
    IF ~canDispatch(s) THEN s
    ELSE LET params == s.requestQueue[Len(s.requestQueue)]
             p == [s EXCEPT !.readyToProcess = FALSE,
                            !.requestQueue = SubSeq(@, 1, Len(@) - 1),
                            !.sent = @ \cup {params.id}]
         IN  IF throws THEN heartBeatCallback(p, TRUE, params)
             ELSE [p EXCEPT !.http =
                       Append(@, Dispatch(params, s.requestQueue, s.nextId))]

dispatch_staysReady(s, throws) ==
    IF ~canDispatch(s) THEN s
    ELSE LET params == Head(s.requestQueue)
             p == [s EXCEPT !.requestQueue = Tail(@),
                            !.sent = @ \cup {params.id}]
         IN  IF throws THEN heartBeatCallback(p, TRUE, params)
             ELSE [p EXCEPT !.http =
                       Append(@, Dispatch(params, s.requestQueue, s.nextId))]

\* heartBeat's dispatch with the popped request stamped again before it is
\* handed over.
dispatch_restamps(s, throws) ==
    IF ~canDispatch(s) THEN s
    ELSE LET params == prepareRequest(s, Head(s.requestQueue))
             p == [s EXCEPT !.readyToProcess = FALSE,
                            !.requestQueue = Tail(@),
                            !.sent = @ \cup {params.id}]
         IN  IF throws THEN heartBeatCallback(p, TRUE, params)
             ELSE [p EXCEPT !.http =
                       Append(@, Dispatch(params, s.requestQueue, s.nextId))]

\* heartBeat, step 3: pop the head and hand it to makeRequest.  `throws` says
\* whether makeRequest fails before the request leaves (its catch block then
\* runs the callback at once).
dispatch(s, throws) ==
    IF ~canDispatch(s) THEN s
    ELSE LET params == Head(s.requestQueue)
             p == [s EXCEPT !.readyToProcess = FALSE,
                            !.requestQueue = Tail(@),
                            !.sent = @ \cup {params.id}]
         IN  IF throws THEN heartBeatCallback(p, TRUE, params)
             ELSE [p EXCEPT !.http =
                       Append(@, Dispatch(params, s.requestQueue, s.nextId))]

\* heartBeat(): the three steps; the timer that ran it is replaced by a new one.
heartBeat(s, throws) == dispatch(flushEvents(extendSession(s)), throws)

\* ---- Countly.init(conf), with a url ----
\* The configuration and clear_stored_device_id come first, in any process;
\* the identity, the queues, the heartBeat loop and the message listeners are
\* set up in the owner only.
configured(s, conf) ==
    LET c == [s EXCEPT !.inited = TRUE, !.app_key = conf.app_key,
                       !.test_mode = conf.test_mode]
    IN  IF conf.clear_stored_device_id
        THEN storeSet(storeSet(c, "cly_id", Val(NULL)), "cly_id_type", Val(NULL))
        ELSE c

\* handleWorkerMessage is attached to every worker there is, and to the fork
\* event of the cluster.
listen(s) ==
    [s EXCEPT !.cluster.listeners =
                  [w \in WorkerIds |->
                      IF w \in s.cluster.forked THEN @[w] + 1 ELSE @[w]],
              !.cluster.onFork = @ + 1]

init(s0, conf) ==
    IF ~s0.cluster.isMaster THEN configured(s0, conf) ELSE
    LET s == configured(s0, conf)
        storedId == storeGet(s, "cly_id", NULL)
        s1 == cached(s, "cly_id", NULL)
        id == IF storedId # NULL THEN storedId
              ELSE IF conf.device_id # NULL THEN conf.device_id
              ELSE "uuid"
        storedIdType == storeGet(s1, "cly_id_type", NULL)
        s2 == cached(s1, "cly_id_type", NULL)
        idType == IF storedId # NULL
                  THEN (IF storedIdType # NULL THEN storedIdType
                        ELSE IF storedId = "uuid" THEN "SDK_GENERATED"
                        ELSE "DEVELOPER_SUPPLIED")
                  ELSE IF conf.device_id # NULL THEN "DEVELOPER_SUPPLIED"
                  ELSE "SDK_GENERATED"
        s3 == storeSet(storeSet(s2, "cly_id", Val(id)), "cly_id_type", Val(idType))
        rq == storeGetArray(s3, "cly_queue", s3.requestQueue)
        eq == storeGetArray(s3, "cly_event", s3.eventQueue)
        rc == storeGet(s3, "cly_remote_configs", "{}")
        got == cached(cached(cached(s3, "cly_queue", << >>),
                             "cly_event", << >>),
                      "cly_remote_configs", "{}")
        s4 == [got EXCEPT !.device_id = id, !.deviceIdType = idType,
                          !.requestQueue = rq, !.eventQueue = eq,
                          !.remoteConfigs = rc,
                          !.data["cly_queue"] = Live,
                          !.data["cly_event"] = Live,
                          !.heartBeatTimers = @ + 1]
    IN  listen(heartBeat(s4, FALSE))

Confs == [app_key : {NULL, "k"}, device_id : {NULL}, test_mode : BOOLEAN,
          clear_stored_device_id : {FALSE}]

\* ---- the state when the module is loaded, on a first launch ----
Loaded ==
    [ inited |-> FALSE, app_key |-> NULL, device_id |-> NULL,
      test_mode |-> FALSE, requestQueue |-> << >>, eventQueue |-> << >>,
      readyToProcess |-> TRUE, failTimeout |-> 0, sessionStarted |-> FALSE,
      autoExtend |-> TRUE, trackTime |-> TRUE, lastBeat |-> 0,
      remoteConfigs |-> "{}", data |-> [k \in Keys |-> Undefined],
      asyncWriteLock |-> FALSE, asyncWriteQueue |-> << >>,
      writing |-> NoWrite, writeTimer |-> 0,
      disk |-> [k \in Keys |-> Absent],
      quarantine |-> {}, exited |-> FALSE,
      http |-> << >>, heartBeatTimers |-> 0, now |-> 1,
      nextId |-> 1, nextEv |-> 1,
      sent |-> {}, delivered |-> {}, evicted |-> {}, calls |-> 0,
      cluster |-> [isMaster |-> TRUE, forked |-> {},
                   listeners |-> [w \in WorkerIds |-> 0], onFork |-> 0],
      ipc |-> << >>, deviceIdType |-> NULL, lastView |-> NULL ]

Is(s) ==
    /\ heartBeatTimers = s.heartBeatTimers /\ now = s.now
    /\ inited = s.inited /\ app_key = s.app_key /\ device_id = s.device_id
    /\ test_mode = s.test_mode /\ requestQueue = s.requestQueue
    /\ eventQueue = s.eventQueue /\ readyToProcess = s.readyToProcess
    /\ failTimeout = s.failTimeout /\ sessionStarted = s.sessionStarted
    /\ autoExtend = s.autoExtend /\ trackTime = s.trackTime
    /\ lastBeat = s.lastBeat /\ remoteConfigs = s.remoteConfigs
    /\ data = s.data /\ asyncWriteLock = s.asyncWriteLock
    /\ asyncWriteQueue = s.asyncWriteQueue /\ writing = s.writing
    /\ writeTimer = s.writeTimer /\ disk = s.disk /\ http = s.http
    /\ quarantine = s.quarantine /\ exited = s.exited
    /\ nextId = s.nextId /\ nextEv = s.nextEv
    /\ sent = s.sent /\ delivered = s.delivered /\ evicted = s.evicted
    /\ calls = s.calls /\ cluster = s.cluster /\ ipc = s.ipc
    /\ deviceIdType = s.deviceIdType /\ lastView = s.lastView

\* The program starts with Countly.init(conf).
Init == \E conf \in Confs : Is(init(Loaded, conf))

\* ---- actions (the program runs after Countly.init) ----

\* A call of the producer API left the state `next` (calls are counted, to
\* bound the run; a call that changes nothing is no step).
Call(next) == next # State /\ Handler([next EXCEPT !.calls = @ + 1])

Countly_begin_session ==
    /\ inited
    /\ \E noHeartBeat \in BOOLEAN : Call(begin_session(State, noHeartBeat))

Countly_end_session == inited /\ Call(end_session(State))

\* Any other producer that ends in toRequestQueue (user_details, crash, apm,
\* campaign, consent).
Produce == inited /\ Call(toRequestQueue(State, "data", << >>))

Countly_request == inited /\ \E valid \in BOOLEAN : Call(request(State, valid))

Countly_add_event == inited /\ Call(add_cly_events(State))

Countly_fetch_remote_config ==
    inited /\ Call([State EXCEPT !.http = Append(@, Fetch)])

HeartBeat ==
    /\ heartBeatTimers > 0
    /\ \E throws \in BOOLEAN : Handler(heartBeat(State, throws))

\* A response ended (validated or not) or the request emitted an error: the
\* callback of that request runs, once.
HttpCallback(i, err) ==
    LET h == http[i]
        s == [State EXCEPT !.http = RemoveAt(@, i)]
    IN  Handler(IF h.info = "heartBeat"
                THEN heartBeatCallback(s, err, h.params)
                ELSE fetchCallback(s, err))

HttpDone == \E i \in 1..Len(http) : \E err \in BOOLEAN : HttpCallback(i, err)

\* fs.writeFile called back.
\* The callback of fs.writeFile without the setTimeout for the waiting writes.
WriteCallback_leavesWaiting(i, err) ==
    Becomes([State EXCEPT
        !.disk[writing[i].key] =
            IF err THEN @ ELSE Stringify(writing[i].key, writing[i].content),
        !.writing = RemoveAt(@, i),
        !.asyncWriteLock = IF Len(asyncWriteQueue) > 0 THEN @ ELSE FALSE])

WriteCallback(i, err) ==
    Becomes([State EXCEPT
        !.disk[writing[i].key] =
            IF err THEN @ ELSE Stringify(writing[i].key, writing[i].content),
        !.writing = RemoveAt(@, i),
        !.writeTimer = IF Len(asyncWriteQueue) > 0 THEN @ + 1 ELSE @,
        !.asyncWriteLock = IF Len(asyncWriteQueue) > 0 THEN @ ELSE FALSE])

WriteDone == \E err \in {FALSE} :
    /\ writing # NoWrite
    /\ \E i \in 1..Len(writing) : WriteCallback(i, err)

\* The setTimeout(0) of writeFile's callback: start the next queued write.
WriteNext ==
    /\ writeTimer > 0
    /\ Len(asyncWriteQueue) > 0
    /\ LET arr == Head(asyncWriteQueue)
       IN  Becomes([writeFile([State EXCEPT !.asyncWriteQueue = Tail(@),
                                            !.writeTimer = @ - 1],
                              arr.key, arr.value)
                        EXCEPT !.writing[Len(writing) + 1].was = arr.was])

\* The callback of fs.writeFile returning once it has logged the error.
writeFailed_returns(s, i, left) ==
    [s EXCEPT !.disk[s.writing[i].key] = left,
              !.writing = RemoveAt(@, i)]

\* fs.writeFile called back with an error: the error is logged, and the
\* callback goes on as after a write that succeeded.  The file is what the
\* failed write left of it: `left`.
writeFailed(s, i, left) ==
    [s EXCEPT
        !.disk[s.writing[i].key] = left,
        !.writing = RemoveAt(@, i),
        !.writeTimer = IF Len(s.asyncWriteQueue) > 0 THEN @ + 1 ELSE @,
        !.asyncWriteLock = IF Len(s.asyncWriteQueue) > 0 THEN @ ELSE FALSE]

\* What a failed fs.writeFile can leave: the file as it was (the open failed),
\* or a truncated or partly written file.
LeftBy(i) == {disk[writing[i].key], Empty, Corrupt}

WriteFails ==
    /\ writing # NoWrite
    /\ \E i \in 1..Len(writing) : \E left \in LeftBy(i) :
           Becomes(writeFailed(State, i, left))

\* The clock (cc.getTimestamp, seconds).
Advance == now < MaxTime /\ now' = now + 1 /\ UNCHANGED
    << inited, app_key, device_id, test_mode, requestQueue, eventQueue,
       readyToProcess, failTimeout, sessionStarted, autoExtend, trackTime,
       lastBeat, remoteConfigs, data, asyncWriteLock, asyncWriteQueue,
       writing, writeTimer, disk, quarantine, exited, http,
       heartBeatTimers, nextId, nextEv, sent, delivered, evicted, calls,
       cluster, ipc, deviceIdType, lastView >>

Next ==
    \/ Countly_begin_session
    \/ Countly_end_session
    \/ Produce
    \/ Countly_request
    \/ Countly_add_event
    \/ Countly_fetch_remote_config
    \/ HeartBeat
    \/ HttpDone
    \/ WriteDone
    \/ WriteNext
    \/ Advance

Spec == Init /\ [][Next]_vars

\* ---- the same program with a transport that eventually accepts ----

\* A delivery may fail only while the clock can still pass the backoff
\* deadline the failure sets.
Recoverable == failTimeout' # failTimeout => failTimeout' < MaxTime

LiveNext ==
    \/ Countly_begin_session
    \/ Countly_end_session
    \/ Produce
    \/ Countly_request
    \/ Countly_add_event
    \/ Countly_fetch_remote_config
    \/ (HeartBeat /\ Recoverable)
    \/ (HttpDone /\ Recoverable)
    \/ WriteDone
    \/ WriteNext
    \/ Advance

\* The timer fires, time passes, responses arrive and file writes call back.
LiveSpec ==
    /\ Init /\ [][LiveNext]_vars
    /\ WF_vars(HeartBeat /\ Recoverable)
    /\ WF_vars(HttpDone /\ Recoverable)
    /\ WF_vars(WriteDone)
    /\ WF_vars(WriteNext)
    /\ WF_vars(Advance)

\* ---- the program with Countly.halt and a second Countly.init ----

\* Countly.halt(preventRequestProcessing): the module state goes back to its
\* initial values, the cache, the write lock and the write queue included.
\* The timer of heartBeat, the fs.writeFile and HTTP calls that have not
\* called back, and Countly.test_mode are left as they are.
halt(s, preventRequestProcessing) ==
    [s EXCEPT !.inited = FALSE, !.sessionStarted = FALSE,
              !.requestQueue = << >>, !.eventQueue = << >>,
              !.remoteConfigs = "{}", !.autoExtend = TRUE,
              !.failTimeout = 0, !.readyToProcess = ~preventRequestProcessing,
              !.trackTime = TRUE, !.data = [k \in Keys |-> Undefined],
              !.device_id = NULL, !.app_key = NULL, !.deviceIdType = NULL,
              !.lastView = NULL,
              !.asyncWriteLock = FALSE, !.asyncWriteQueue = << >>]

\* halt and init are called whatever the store is doing.
Countly_halt ==
    /\ inited
    /\ \E preventRequestProcessing \in BOOLEAN :
           Becomes([halt(State, preventRequestProcessing)
                        EXCEPT !.calls = @ + 1])

Countly_init ==
    /\ ~inited
    /\ \E conf \in Confs : Becomes([init(State, conf) EXCEPT !.calls = @ + 1])

\* The setTimeout(0) of writeFile's callback when halt has emptied the write
\* queue since: asyncWriteQueue.shift() is undefined and arr[0] throws; with
\* no uncaughtException handler the process ends.
WriteNextThrows ==
    /\ writeTimer > 0
    /\ Len(asyncWriteQueue) = 0
    /\ Becomes([State EXCEPT !.writeTimer = @ - 1, !.exited = TRUE])

HaltNext ==
    \/ Countly_init
    \/ Countly_halt
    \/ Countly_request
    \/ Countly_add_event
    \/ HeartBeat
    \/ HttpDone
    \/ WriteDone
    \/ WriteNext
    \/ WriteNextThrows

HaltSpec == Init /\ [][HaltNext]_vars

\* ---- the program with Countly.track_errors() called after init ----

\* recordError(err, false): the crash report joins the request queue.
recordError(s) == toRequestQueue(s, "crash", << >>)

\* forceStore(): fs.writeFileSync of {key: value} for every cached key.
forceStore(s) ==
    [s EXCEPT !.disk =
        [k \in Keys |->
            IF s.data[k] # Undefined
            THEN Stringify(k, Content(s, k, s.data[k]))
            ELSE @[k]]]

\* What an fs.writeFile that has not called back does to its file while and
\* after forceStore writes the same file from the main thread: nothing more
\* ("none": its open and write came first, or the process is gone before
\* them), the open with O_TRUNC of the thread pool comes last ("truncate"),
\* or its write does ("write").
Races == {"none", "truncate", "write"}
raced(s, race) ==
    [s EXCEPT !.disk =
        [k \in Keys |->
            IF \E i \in 1..Len(s.writing) :
                   s.writing[i].key = k /\ race[i] = "truncate"
            THEN Empty
            ELSE IF \E i \in 1..Len(s.writing) :
                        s.writing[i].key = k /\ race[i] = "write"
            THEN LET i == CHOOSE i \in 1..Len(s.writing) :
                              s.writing[i].key = k /\ race[i] = "write"
                 IN  Stringify(k, s.writing[i].content)
            ELSE @[k]]]

\* The uncaughtException handler: recordError, forceStore, process.exit(1).
UncaughtException ==
    /\ inited
    /\ LET s == forceStore(recordError(State))
       IN  \E race \in [1..Len(s.writing) -> Races] :
               Becomes([raced(s, race) EXCEPT !.exited = TRUE])

CrashNext == Next \/ UncaughtException

CrashSpec == Init /\ [][CrashNext]_vars

\* ---- a worker process of the cluster ----

DeviceIds == {"uuid", "id2"}

Countly_change_id ==
    /\ inited
    /\ \E newId \in DeviceIds : \E merge \in BOOLEAN :
           Call(change_id(State, newId, merge))

\* The files the owner has written when the worker starts.
OwnerFiles ==
    [k \in Keys |->
        IF k = "cly_id" THEN Object("cly_id" :> "uuid")
        ELSE IF k = "cly_id_type" THEN Object("cly_id_type" :> "SDK_GENERATED")
        ELSE Absent]

WorkerConfs == [app_key : {"k"}, device_id : {NULL}, test_mode : BOOLEAN,
                clear_stored_device_id : BOOLEAN]

WorkerLoaded == [Loaded EXCEPT !.cluster.isMaster = FALSE, !.disk = OwnerFiles]

\* Countly.init(conf) has run in the worker (`ipc` holds what the worker
\* has sent with process.send).
WorkerInit == \E conf \in WorkerConfs : Is(init(WorkerLoaded, conf))

WorkerNext ==
    \/ Countly_begin_session
    \/ Countly_end_session
    \/ Produce
    \/ Countly_request
    \/ Countly_add_event
    \/ Countly_change_id
    \/ WriteDone
    \/ WriteNext

WorkerSpec == WorkerInit /\ [][WorkerNext]_vars

\* ---- the owner process with its workers ----

\* What a worker can send (see WorkerSpec): a request of a producer, an event,
\* a raw request, a change of device id.
WorkerMessages ==
    {Message("cly_queue", "data", << >>, NULL, FALSE),
     Message("event", "event", << >>, NULL, FALSE),
     Message("request", "raw", << >>, NULL, FALSE)}
    \cup {Message("change_id", "change_id", << >>, newId, merge) :
              newId \in DeviceIds, merge \in BOOLEAN}

\* cluster.fork(): the handlers of the cluster's fork event run, each
\* attaching handleWorkerMessage to the new worker.
Fork(w) ==
    /\ w \notin cluster.forked
    /\ Becomes([State EXCEPT !.cluster.forked = @ \cup {w},
                             !.cluster.listeners[w] = cluster.onFork])

\* A message of worker w reaches the owner (`ipc` holds, in arrival order,
\* the messages whose "message" event has not been emitted yet).
Arrives(w, msg) ==
    /\ w \in cluster.forked
    /\ Becomes([State EXCEPT !.ipc = Append(@, [msg EXCEPT !.from = w]),
                             !.calls = @ + 1])

\* worker.emit("message", msg): every attached listener runs, in turn.
RECURSIVE emit(_, _, _)
emit(s, msg, listeners) ==
    IF listeners = 0 THEN s
    ELSE emit(handleWorkerMessage(s, msg), msg, listeners - 1)

Deliver ==
    /\ ipc # << >>
    /\ Handler(emit([State EXCEPT !.ipc = Tail(@)], Head(ipc),
                    cluster.listeners[Head(ipc).from]))

ClusterInit ==
    \E conf \in Confs : \E forked \in SUBSET {"w1"} :
        Is(init([Loaded EXCEPT !.cluster.forked = forked], conf))

ClusterNext ==
    \/ \E w \in WorkerIds : Fork(w)
    \/ \E w \in WorkerIds : \E msg \in WorkerMessages : Arrives(w, msg)
    \/ Deliver
    \/ Countly_begin_session
    \/ Countly_end_session
    \/ Countly_add_event
    \/ Countly_change_id
    \/ HeartBeat
    \/ HttpDone
    \/ WriteDone
    \/ WriteNext

ClusterSpec == ClusterInit /\ [][ClusterNext]_vars

\* ---- the owner with its workers, Countly.halt and a second Countly.init ----

ClusterHaltNext ==
    \/ \E w \in WorkerIds : Fork(w)
    \/ \E w \in WorkerIds : \E msg \in WorkerMessages : Arrives(w, msg)
    \/ Deliver
    \/ Countly_init
    \/ Countly_halt
    \/ WriteDone
    \/ WriteNext
    \/ WriteNextThrows

ClusterHaltSpec == ClusterInit /\ [][ClusterHaltNext]_vars

\* ---- the identity: Countly.init on the files of an earlier run ----

\* What cly_id.json and cly_id_type.json can hold when the owner starts: no
\* file (first launch), a file cut short by a crash, the null that
\* clear_stored_device_id stores, or an identity an earlier run stored.
IdFiles ==
    {Absent, Corrupt, Object("cly_id" :> NULL)}
    \cup {Object("cly_id" :> id) : id \in {"uuid", "dev", "id2"}}
TypeFiles ==
    {Absent, Object("cly_id_type" :> NULL)}
    \cup {Object("cly_id_type" :> type) :
              type \in {"SDK_GENERATED", "DEVELOPER_SUPPLIED"}}

IdConfs == [app_key : {"k"}, device_id : {NULL, "dev"}, test_mode : {FALSE},
            clear_stored_device_id : BOOLEAN]

IdentityInit ==
    \E idFile \in IdFiles : \E typeFile \in TypeFiles :
        Is([Loaded EXCEPT !.disk["cly_id"] = idFile,
                          !.disk["cly_id_type"] = typeFile])

Countly_init_with(conf) ==
    /\ ~inited
    /\ Becomes([init(State, conf) EXCEPT !.calls = @ + 1])

IdentityNext ==
    \/ \E conf \in IdConfs : Countly_init_with(conf)
    \/ Countly_change_id
    \/ Countly_begin_session
    \/ Countly_add_event
    \/ HeartBeat
    \/ HttpDone
    \/ WriteDone
    \/ WriteNext

IdentitySpec == IdentityInit /\ [][IdentityNext]_vars

\* ---- the program with the responses of the server ----

Statuses == {NoStatus} \cup {Status(code) : code \in {199, 200, 299, 300, 404}}

\* makeRequest's isBroad: false for heartBeat, true for fetch_remote_config.
isBroad(h) == h.info = "fetch_remote_config"

\* The response of request i has arrived, status and text (one response at
\* a time: its "end" event follows before another response is looked at).
Respond(i, statusCode, str) ==
    /\ \A j \in 1..Len(http) : ~http[j].res.arrived
    /\ Becomes([State EXCEPT !.http[i].res = Response(statusCode, str)])

\* res.on("end"): the response is validated and the callback told.
ResponseEnd(i) ==
    /\ http[i].res.arrived
    /\ HttpCallback(i, responseEnd(isBroad(http[i]), http[i].res.statusCode,
                                   http[i].res.str))

\* req.on("error"): no response, the callback is told the failure.
RequestError(i) == ~http[i].res.arrived /\ HttpCallback(i, TRUE)

TransportNext ==
    \/ Produce
    \/ Countly_fetch_remote_config
    \/ HeartBeat
    \/ \E i \in 1..Len(http) : \E statusCode \in Statuses : \E str \in Texts :
           Respond(i, statusCode, str)
    \/ \E i \in 1..Len(http) : ResponseEnd(i)
    \/ \E i \in 1..Len(http) : RequestError(i)
    \/ WriteDone
    \/ WriteNext

TransportSpec == Init /\ [][TransportNext]_vars

\* ---- the program with connections that fail while a response is read ----

\* The callback makeRequest was given for request h.
callbackOf(s, h, err) ==
    IF h.info = "heartBeat"
    THEN heartBeatCallback(s, err, h.params)
    ELSE fetchCallback(s, err)

\* The connection of request i fails after its response has begun: the
\* request emits "error", and the response, cut short or followed by bytes
\* that do not parse, emits "end" with the text read so far.  Both listeners
\* of makeRequest run, one after the other.
ConnectionReset(i) ==
    /\ http[i].res.arrived
    /\ LET h == http[i]
           s == [State EXCEPT !.http = RemoveAt(@, i)]
           failed == callbackOf(s, h, TRUE)
       IN  Handler(callbackOf(failed, h,
                              responseEnd(isBroad(h), h.res.statusCode,
                                          h.res.str)))

ResetNext ==
    \/ TransportNext
    \/ \E i \in 1..Len(http) : ConnectionReset(i)

ResetSpec == Init /\ [][ResetNext]_vars

\* ---- the owner with Countly.change_id and the clock ----

ChangeNext ==
    \/ Countly_begin_session
    \/ Countly_change_id
    \/ HeartBeat
    \/ HttpDone
    \/ WriteDone
    \/ WriteNext
    \/ Advance

ChangeSpec == Init /\ [][ChangeNext]_vars

\* ---- the owner with views, sessions and Countly.change_id ----

Countly_track_view == inited /\ Call(track_view(State, "view"))

ViewNext ==
    \/ Countly_begin_session
    \/ Countly_track_view
    \/ Countly_add_event
    \/ Countly_change_id
    \/ HeartBeat
    \/ HttpDone
    \/ WriteDone
    \/ WriteNext

ViewSpec == Init /\ [][ViewNext]_vars

\* ---- the store on its own: storeSet and storeGet called in any order ----

\* JSON values a caller stores.
JsonNull == [j |-> "null"]
JsonArray(a) == [j |-> "array", items |-> a]
JsonObject(o) == [j |-> "object", fields |-> o]
JsonValues ==
    {JsonNull, JsonArray(<< >>), JsonArray(<<1>>), JsonObject(<< >>)}
Defaults == {JsonNull, JsonArray(<< >>)}
StoreKeys == {"cly_id", "cly_remote_configs"}

\* What the file of a key can hold when the process starts: no file, an empty
\* file, text that does not parse, {}, an object without the key, and what
\* writeFile leaves.  (The second key starts with no file or a written one.)
Files(key) ==
    IF key = "cly_id"
    THEN {Absent, Empty, Corrupt, Object(<< >>), Object("other" :> JsonNull),
          Object(key :> JsonNull), Object(key :> JsonArray(<<1>>))}
    ELSE {Absent, Object(key :> JsonArray(<<1>>))}

StoreInit ==
    \E files \in [StoreKeys -> UNION {Files(k) : k \in StoreKeys}] :
        /\ \A k \in StoreKeys : files[k] \in Files(k)
        /\ Is([Loaded EXCEPT
                  !.disk = [k \in Keys |->
                               IF k \in StoreKeys THEN files[k] ELSE Absent]])

StoreSet(key, value) ==
    Becomes([storeSet(State, key, Val(value)) EXCEPT !.calls = @ + 1])

StoreGet(key, def) ==
    /\ cached(State, key, def) # State
    /\ Becomes(cached(State, key, def))

\* fs.writeFile of a backup copy called back (its callback does nothing).
BackupDone ==
    \E q \in quarantine :
        /\ ~q.written
        /\ Becomes([State EXCEPT
               !.quarantine = (@ \ {q}) \cup {[q EXCEPT !.written = TRUE]}])

StoreNext ==
    \/ \E key \in StoreKeys, value \in JsonValues : StoreSet(key, value)
    \/ \E key \in StoreKeys, def \in Defaults : StoreGet(key, def)
    \/ WriteDone
    \/ WriteNext
    \/ BackupDone

StoreSpec == StoreInit /\ [][StoreNext]_vars

StoreLiveSpec ==
    /\ StoreSpec
    /\ WF_vars(WriteDone)
    /\ WF_vars(WriteNext)
    /\ WF_vars(BackupDone)

\* The store with file writes that can fail.
StoreFailNext ==
    \/ \E key \in StoreKeys, value \in JsonValues : StoreSet(key, value)
    \/ WriteDone
    \/ WriteFails
    \/ WriteNext

StoreFailSpec == StoreInit /\ [][StoreFailNext]_vars

\* ======================= properties =======================

\* Indices of the outstanding queue dispatches, and the requests pending.
InFlight == {i \in 1..Len(http) : http[i].info = "heartBeat"}
QueueIds == {requestQueue[i].id : i \in 1..Len(requestQueue)}
InFlightIds == {http[i].params.id : i \in InFlight}
Seq2Set(q) == {q[i] : i \in 1..Len(q)}

\* C1: requests are handed to makeRequest in enqueue order: when heartBeat has
\* handed over a request, every request enqueued before it had been delivered
\* or evicted.
C1_FifoDispatch ==
    \A r2 \in sent : \A r1 \in 1..(r2 - 1) : r1 \in delivered \cup evicted

\* C1 witness: a first request failed, was retried and delivered, and the
\* request enqueued after it was handed over next.
C1_Witness ==
    /\ failTimeout > 0 /\ 1 \in delivered /\ 2 \in sent /\ evicted = {}

\* C2 (as claimed): the request queue never holds more than queueSize requests.
C2_QueueWithinSize == Len(requestQueue) <= queueSize

\* C3 (as claimed): toRequestQueue on a queue of exactly queueSize requests
\* evicts the head, keeps the rest in order, puts the new request at the tail,
\* and the value it persists under cly_queue is that queue.
C3_EvictAtCapacity ==
    [][(Len(requestQueue) = queueSize /\ Produce) =>
          /\ requestQueue' =
                 Append(Tail(requestQueue),
                        prepareRequest(State, Request(nextId, "data", << >>)))
          /\ evicted' = evicted \cup {Head(requestQueue).id}
          /\ data'["cly_queue"] = Live
          /\ \A i \in 1..Len(writing') :
                 writing'[i].key = "cly_queue" =>
                     writing'[i].content = Val(requestQueue')
      ]_vars

\* The steps the claims are about.
DispatchFails(i) == http[i].info = "heartBeat" /\ HttpCallback(i, TRUE)
DispatchSucceeds(i) == http[i].info = "heartBeat" /\ HttpCallback(i, FALSE)

\* The ids enqueued since the dispatch h was handed over, in enqueue order.
Since(h) == [k \in 1..(nextId - h.mark) |-> h.mark + k - 1]

\* C4 (as claimed): after a failed dispatch the queue is the queue as it was
\* before the pop followed by what was enqueued while the attempt was
\* outstanding.
C4_RestoreIsQueueBeforePop ==
    [][\A i \in 1..Len(http) : DispatchFails(i) =>
          Ids(requestQueue') = Ids(http[i].before) \o Since(http[i])
      ]_vars

\* C4: when a dispatched request fails, the callback puts that same request
\* at position 0 in front of the queue as it is then; the result is the queue
\* before the pop followed by what was enqueued while the attempt was
\* outstanding, less the requests that overflow evicted in the meantime.
C4_RestoreAtHead ==
    [][\A i \in 1..Len(http) : DispatchFails(i) =>
          /\ requestQueue' = << http[i].params >> \o requestQueue
          /\ Ids(requestQueue') =
                 SelectSeq(Ids(http[i].before) \o Since(http[i]),
                           LAMBDA id : id \notin evicted)
      ]_vars

\* C4 witness: a failed request is back at the head after a request enqueued
\* behind it was evicted while the attempt was outstanding.
C4_Witness ==
    /\ readyToProcess /\ failTimeout = now + failTimeoutAmount
    /\ requestQueue # << >> /\ Head(requestQueue).id \in sent
    /\ \E e \in evicted : e > Head(requestQueue).id

\* A write of the queue as it is after the step was scheduled by the step.
QueueWriteScheduled ==
    /\ data'["cly_queue"] = Live
    /\ IF asyncWriteLock
       THEN asyncWriteQueue' =
                Append(asyncWriteQueue, [key |-> "cly_queue", value |-> Live,
                                         was |-> Val(requestQueue')])
       ELSE writing' =
                Append(writing, [key |-> "cly_queue",
                                 content |-> Val(requestQueue'),
                                 was |-> Val(requestQueue')])

C6_SingleFlight ==
    [][(InFlight # {} /\ HeartBeat) =>
          /\ http' = http
          /\ sent' = sent
          /\ ~readyToProcess'
          /\ QueueIds \ QueueIds' \subseteq evicted'
      ]_vars

\* C6 witness: a tick ran (it flushed events into the queue) while a dispatch
\* was outstanding, and the dispatch is outstanding still.
C6_Witness ==
    \E i \in InFlight : \E j \in 1..Len(requestQueue) :
        /\ requestQueue[j].kind = "events"
        /\ requestQueue[j].id >= http[i].mark

\* C7 (as claimed): at most one HTTP request is outstanding, queue dispatches
\* and remote-config fetches counted together.
C7_OneHttpInFlight == Len(http) <= 1

\* C7: at most one queue dispatch issued by heartBeat is outstanding at any
\* instant; the requests fetch_remote_config issues are not serialised with it.
C7_OneDispatchInFlight == Cardinality(InFlight) <= 1

\* C7 witness: a queue dispatch and a remote-config fetch are outstanding
\* together.
C7_Witness == Len(http) = 2 /\ Cardinality(InFlight) = 1

\* A delivery failed in this step: a response callback reported an error, or
\* makeRequest threw.
DeliveryFails ==
    \/ \E i \in 1..Len(http) : DispatchFails(i)
    \/ /\ canDispatch(flushEvents(extendSession(State)))
       /\ Handler(heartBeat(State, TRUE))

InBackoff == now <= failTimeout

\* C8 (as claimed): a failure at time t sets the deadline to
\* t + failTimeoutAmount, no tick dispatches until the time exceeds it, and a
\* tick inside the window leaves the head of the queue in place.
C8_BackoffKeepsHead ==
    [][/\ DeliveryFails => failTimeout' = now + failTimeoutAmount
       /\ (InBackoff /\ HeartBeat) =>
             /\ sent' = sent /\ http' = http
             /\ requestQueue # << >> =>
                    /\ requestQueue' # << >>
                    /\ Head(requestQueue') = Head(requestQueue)
      ]_vars

\* C8: a failure at time t sets the deadline to t + failTimeoutAmount and no
\* tick dispatches until the time exceeds it; a tick inside the window leaves
\* the head of the queue in place unless an enqueue of that tick (session
\* extension, event flush) overflows the queue and evicts it.
C8_Backoff ==
    [][/\ DeliveryFails => failTimeout' = now + failTimeoutAmount
       /\ (InBackoff /\ HeartBeat) =>
             /\ sent' = sent /\ http' = http
             /\ requestQueue # << >> =>
                    /\ requestQueue' # << >>
                    /\ \/ Head(requestQueue') = Head(requestQueue)
                       \/ Head(requestQueue).id \in evicted' \ evicted
      ]_vars

\* C8 witness: the tick at the deadline itself extended the session and left
\* the restored request at the head.
C8_Witness ==
    /\ failTimeout > 0 /\ now = failTimeout /\ lastBeat = now
    /\ requestQueue # << >>
    /\ Head(requestQueue).id \in sent \ delivered
    /\ requestQueue[Len(requestQueue)].kind = "session_duration"

\* C9: with fair ticks, advancing time and a transport that eventually
\* accepts, no request is lost other than by overflow eviction (every request
\* that entered the queue is queued, handed over, delivered or evicted), and,
\* test mode off, the queue drains once enqueues stop: every request is
\* eventually delivered or evicted, without a call from the producer.
C9_Recovery ==
    /\ [](\A id \in 1..(nextId - 1) :
              id \in QueueIds \cup InFlightIds \cup delivered \cup evicted)
    /\ (~test_mode => <>[](requestQueue = << >> /\ InFlight = {}))

\* C9 witness: a delivery failed and everything handed over has been
\* delivered since; nothing is pending.
C9_Witness ==
    /\ failTimeout > 0 /\ sent # {} /\ delivered = sent
    /\ requestQueue = << >> /\ http = << >>

\* The requests enqueued by the step that are still pending after it.
Enqueued ==
    {r \in Seq2Set(requestQueue') \cup {http'[i].params : i \in 1..Len(http')} :
        r.id >= nextId}

\* C10 (as claimed): a tick with a buffer of L > 0 events enqueues exactly one
\* events request, with the first min(L, maxEventBatch) events in recorded
\* order, and leaves the other events in the buffer in order.
C10_FlushOneBatch ==
    [][(Len(eventQueue) > 0 /\ HeartBeat) =>
          LET L == Len(eventQueue)
              n == IF L <= maxEventBatch THEN L ELSE maxEventBatch
          IN  /\ eventQueue' = SubSeq(eventQueue, n + 1, L)
              /\ {r \in Enqueued : r.kind = "events"} =
                     {prepareRequest(State,
                                     Request(nextId' - 1, "events",
                                             SubSeq(eventQueue, 1, n)))}
      ]_vars

\* C11 (as claimed): at most one fs.writeFile started by writeFile has not
\* called back, whatever storeSet calls, write completions and halts occur.
C11_OneWriteInFlight == Len(writing) <= 1

\* The writes of the store in the order of their storeSet calls: the ones
\* handed to fs.writeFile, then the waiting ones.
WriteOf(w) == [key |-> w.key, was |-> w.was]
Pipeline ==
    [i \in 1..Backlog |->
        IF i <= Len(writing) THEN WriteOf(writing[i])
        ELSE WriteOf(asyncWriteQueue[i - Len(writing)])]
IsPrefix(s, t) == Len(s) <= Len(t) /\ SubSeq(t, 1, Len(s)) = s

\* C12: every storeSet call adds one write at the end of the writes that are
\* pending, a pending write leaves only by being the oldest one and completing,
\* and the write that is started is the oldest pending one: one file write per
\* storeSet call, started in the order of the calls.
C12_WritesInCallOrder ==
    [][/\ Len(writing') <= 1
       /\ \A key \in StoreKeys, value \in JsonValues :
              StoreSet(key, value) =>
                  Pipeline' = Append(Pipeline,
                                     [key |-> key, was |-> Val(value)])
       /\ \/ /\ IsPrefix(Pipeline, Pipeline')
             /\ writing # NoWrite => writing' = writing
          \/ /\ WriteDone
             /\ Pipeline' = Tail(Pipeline)
             /\ writing' = NoWrite
      ]_vars

\* A write that waited behind another has been started and written what its
\* call passed, while a later one is still waiting.
C12_Witness ==
    /\ Len(writing) = 1
    /\ Len(asyncWriteQueue) >= 1
    /\ writeTimer = 0
    /\ calls = 3
    /\ WriteOf(writing[1]) # WriteOf(asyncWriteQueue[1])

\* A write of the key is in flight or waiting.
HasPending(key) == \E i \in 1..Backlog : Pipeline[i].key = key

\* C13: when the storeSet calls have stopped and the writes complete without
\* error, from some moment on no write is pending, the lock is free, and the
\* file of every key that was set holds the last value set for it (the cached
\* one).
C13_EventuallyStored ==
    /\ <>[](Backlog = 0 /\ ~asyncWriteLock /\ writeTimer = 0)
    /\ \A key \in StoreKeys :
           [](HasPending(key) =>
                  <>[](disk[key] = Stringify(key, data[key])))

\* Two values were set for one key and nothing else; the file holds the cached
\* one and the lock is free.
C13_Witness ==
    /\ calls >= 2
    /\ data["cly_remote_configs"] = Undefined
    /\ disk["cly_remote_configs"] = Absent
    /\ Backlog = 0 /\ ~asyncWriteLock
    /\ data["cly_id"] # Undefined
    /\ disk["cly_id"] = Stringify("cly_id", data["cly_id"])

\* C14 (as claimed): the text a write hands to fs.writeFile is the value as it
\* was at the storeSet call the write belongs to, also for a write that waited
\* while the array was changed.
C14_WritesValueAtCall ==
    \A i \in 1..Len(writing) : writing[i].content = writing[i].was

\* C15: when storeSet(key, v) returns the cache holds v, so storeGet(key, def)
\* returns v whatever the default and whether or not the write has completed;
\* and what storeGet returns for a cached key changes only by a storeSet of
\* that key.
C15_CacheBeforeWrite ==
    [][\A key \in StoreKeys :
          /\ \A value \in JsonValues :
                 StoreSet(key, value) =>
                     \A def \in Defaults :
                         storeGetSlot(State', key, def) = Val(value)
          /\ (data[key] # Undefined
                  /\ ~\E value \in JsonValues : StoreSet(key, value)) =>
                 \A def \in Defaults :
                     storeGetSlot(State', key, def) =
                         storeGetSlot(State, key, def)
      ]_vars

\* A value was set behind another write, its own write has not started, the
\* file holds something else, and storeGet returns the value set.
C15_Witness ==
    \E key \in StoreKeys :
        /\ \E i \in 1..Len(asyncWriteQueue) :
               /\ asyncWriteQueue[i].key = key
               /\ asyncWriteQueue[i].value = data[key]
        /\ disk[key] # Stringify(key, data[key])
        /\ \A def \in Defaults : storeGetSlot(State, key, def) = data[key]

\* C16 (as claimed): after storeGet(key, def) the key is cached, whatever its
\* file holds, so that a second storeGet returns the cached value and does not
\* read the file.
C16_LoadedOnce ==
    \A key \in StoreKeys, def \in Defaults :
        /\ cached(State, key, def).data[key] # Undefined
        /\ storeGetSlot(cached(State, key, def), key, def) =
               storeGetSlot(State, key, def)

\* A process that starts on the files as they are: nothing cached.
Restarted(files) == [Loaded EXCEPT !.disk = files]

\* C17: when the write of storeSet(key, v) completes, storeGet(key, def) in a
\* process started on the files as they then are returns v, whatever the
\* default: for null, an empty array, an empty object and a non-empty array.
C17_RoundTrip ==
    [][\A key \in StoreKeys, value \in JsonValues :
          (/\ writing # NoWrite
           /\ writing[1].key = key
           /\ writing[1].was = Val(value)
           /\ WriteDone) =>
              \A def \in Defaults :
                  storeGetSlot(Restarted(disk'), key, def) = Val(value)
      ]_vars

\* Writes of null and of an empty object have completed on files that did not
\* hold them, and a restarted process reads both back.
C17_Witness ==
    /\ Backlog = 0
    /\ data["cly_id"] = Val(JsonNull)
    /\ data["cly_remote_configs"] = Val(JsonObject(<< >>))
    /\ \A key \in StoreKeys, def \in Defaults :
           storeGetSlot(Restarted(disk), key, def) = data[key]

\* The file of the key does not parse.
Unparsable(key) == disk[key] \in {Corrupt, Empty}

\* C18: storeGet(key, def) on a file that does not parse returns def and caches
\* it, starts a copy of the text under a new name and leaves the file itself
\* as it is; no later step removes or changes a copy, and storeGet never
\* changes a file.
C18_CorruptFileQuarantined ==
    [][/\ \A key \in StoreKeys, def \in Defaults :
              (Unparsable(key) /\ StoreGet(key, def)) =>
                  /\ storeGetSlot(State, key, def) = Val(def)
                  /\ data'[key] = Val(def)
                  /\ \E q \in quarantine' :
                         q.key = key /\ q.content = disk[key]
                  /\ disk' = disk
       /\ \A q \in quarantine :
              \E p \in quarantine' :
                  /\ p.key = q.key /\ p.content = q.content
                  /\ q.written => p.written
       /\ (\E key \in StoreKeys, def \in Defaults : StoreGet(key, def)) =>
              disk' = disk
      ]_vars

\* The default is cached for a key whose file does not parse, the copy of the
\* text has been written, and the file is still there.
C18_Witness ==
    \E q \in quarantine :
        /\ q.written
        /\ q.content = Corrupt
        /\ disk[q.key] = Corrupt
        /\ data[q.key] = Val(JsonArray(<< >>))

\* C19 (as claimed): when the process has exited through the uncaughtException
\* handler, the file of every cached key holds the cached value (for
\* cly_queue: the queue with the crash request), whatever writes were in
\* flight or waiting.
C19_ForcedBeforeExit ==
    exited =>
        \A key \in Keys :
            data[key] # Undefined =>
                disk[key] = Stringify(key, Content(State, key, data[key]))

\* What a call leaves of the queue and of the store's writes.
QueueAndWrites(s) ==
    << s.requestQueue, s.data, s.asyncWriteLock, s.asyncWriteQueue,
       s.writing, s.evicted >>

\* C20: in every state the program reaches, toRequestQueue with app_key or
\* device_id empty, and Countly.request with a request that lacks one of them,
\* leave the request queue as it is and start or queue no write.
C20_RejectedChangesNothing ==
    /\ (app_key = NULL \/ device_id = NULL) =>
           \A kind \in {"data", "events", "crash"} :
               /\ QueueAndWrites(toRequestQueue(State, kind, << >>)) =
                      QueueAndWrites(State)
               /\ toRequestQueue(State, kind, << >>) = State
    /\ QueueAndWrites(request(State, FALSE)) = QueueAndWrites(State)
    /\ request(State, FALSE) = State

\* No app_key, a queue that holds a request, no write pending: the rejected
\* enqueue leaves it so.
C20_Witness ==
    /\ app_key = NULL
    /\ Len(requestQueue) > 0
    /\ Backlog = 0
    /\ toRequestQueue(State, "data", << >>).requestQueue = requestQueue
    /\ toRequestQueue(State, "data", << >>).writing = NoWrite

\* A request carries every identity field.
Stamped(r) ==
    /\ r.app_key \notin {Missing, NULL}
    /\ r.device_id \notin {Missing, NULL}
    /\ StampFields \subseteq r.stamp

\* C21 (as claimed): every request handed to makeRequest by the dispatch loop
\* carries app_key, device_id, sdk_name, sdk_version, the device-id type,
\* timestamp, hour and dow, whichever entry point queued it.
C21_DispatchedIsStamped ==
    \A i \in 1..Len(http) :
        http[i].info = "heartBeat" => Stamped(http[i].params)

\* C21 (amended): a request queued by toRequestQueue is handed over with all
\* of these fields; a request queued by Countly.request is handed over as the
\* caller gave it, with an app_key and a device_id.
C21_EnqueuedIsStamped ==
    \A i \in 1..Len(http) :
        http[i].info = "heartBeat" =>
            /\ http[i].params.app_key \notin {Missing, NULL}
            /\ http[i].params.device_id \notin {Missing, NULL}
            /\ http[i].params.kind # "raw" => Stamped(http[i].params)

\* A request of each entry point has been handed over.
C21_Witness ==
    /\ \E i \in 1..Len(http) :
           http[i].info = "heartBeat" /\ http[i].params.kind = "events"
    /\ \E r \in Seq2Set(requestQueue) : r.kind = "raw"
    /\ delivered # {}

\* The write of cly_queue scheduled last (started or waiting) is a write of q.
LastQueueWriteIs(pending, q) ==
    \E i \in 1..Len(pending) :
        /\ pending[i].key = "cly_queue"
        /\ pending[i].was = Val(q)
        /\ \A j \in (i + 1)..Len(pending) : pending[j].key # "cly_queue"

\* C22 (as claimed): every step of the program that changes the request queue
\* (an enqueue, the pop at dispatch, the restore after a failure) leaves a
\* write of the new queue scheduled under cly_queue.
C22_QueueChangeIsWritten ==
    [][requestQueue' # requestQueue =>
           LastQueueWriteIs(Pipeline', requestQueue')]_vars


\* What a worker has done to the store, the request queue and the event
\* buffer: nothing.
Untouched ==
    /\ data = [k \in Keys |-> Undefined]
    /\ Pipeline = << >>
    /\ disk = OwnerFiles
    /\ quarantine = {}
    /\ requestQueue = << >>
    /\ eventQueue = << >>

\* C23 (as claimed): in a worker process no operation reads or writes the
\* store or changes the request queue or the event buffer, Countly.init with
\* any configuration included.
C23_WorkerLeavesStoreAlone == ~cluster.isMaster => Untouched
\* The queue holds its requests in the order they were enqueued (ids are
\* given in that order).
InEnqueueOrder(q) == \A i, j \in 1..Len(q) : i < j => q[i].id < q[j].id

\* C24: the owner applies the messages of its workers in arrival order and
\* through the enqueue path of a local call: what a message adds to the
\* request queue or to the event buffer goes behind everything that is there,
\* and the queue keeps that order, so the request of an earlier message is
\* ahead of the request of a later one; likewise for events.
C24_AppliedInArrivalOrder ==
    /\ [](InEnqueueOrder(requestQueue))
    /\ [](\A i, j \in 1..Len(eventQueue) : i < j => eventQueue[i] < eventQueue[j])
    /\ [][ipc # << >> /\ ipc' = Tail(ipc) =>
            /\ \A i, j \in 1..Len(requestQueue') :
                   requestQueue'[i].id < nextId /\ requestQueue'[j].id >= nextId
                       => i < j
            /\ \A i, j \in 1..Len(eventQueue') :
                   eventQueue'[i] < nextEv /\ eventQueue'[j] >= nextEv => i < j
            /\ Head(ipc).op = "event" => eventQueue' = Append(eventQueue, nextEv)
            /\ Head(ipc).op = "request" =>
                   requestQueue' = Append(requestQueue, Raw(nextId))]_vars

\* The requests of two messages are in the queue and an event in the buffer,
\* all messages applied.
C24_Witness ==
    /\ Len(requestQueue) = 2
    /\ requestQueue[1].kind = "data" /\ requestQueue[2].kind = "data"
    /\ eventQueue # << >>
    /\ calls = MaxCalls /\ ipc = << >>
\* Every worker of an initialised owner has the handler attached.
Attached == inited => \A w \in cluster.forked : cluster.listeners[w] >= 1

\* The oldest arrived message is taken off the channel and applied once.
AppliedOnce ==
    ipc # << >> /\ ipc' = Tail(ipc) /\ inited =>
        State' = handleWorkerMessage([State EXCEPT !.ipc = Tail(@)], Head(ipc))

\* C25 (as claimed): after Countly.init in the owner the handler is attached
\* to every worker present at init and to every worker forked afterwards, and
\* each message is applied exactly once, also after Countly.halt and a
\* second Countly.init.
C25_EachMessageOnce == [](Attached) /\ [][AppliedOnce]_vars
\* Countly.change_id(newId, false) called now: the request of the buffered
\* events (if any) and the end_session request (if a session is active) are
\* enqueued, in that order and with the identity in use; those that overflow
\* has not evicted by the time the call returns are in the queue, and every
\* request enqueued after them carries the new id and is behind them.
OldIdentityFirst(newId) ==
    LET r == change_id(State, newId, FALSE)
        flush == IF eventQueue # << >>
                 THEN << prepareRequest(State, Request(nextId, "events", eventQueue)) >>
                 ELSE << >>
        ending == IF sessionStarted
                  THEN << prepareRequest(State,
                              Request(nextId + Len(flush), "end_session", << >>)) >>
                  ELSE << >>
        expected == flush \o ending
    IN  /\ r.nextId >= nextId + Len(expected)
        /\ \A i \in 1..Len(expected) :
               \/ expected[i].id \in r.evicted
               \/ \E j \in 1..Len(r.requestQueue) : r.requestQueue[j] = expected[i]
        /\ \A j \in 1..Len(r.requestQueue) :
               r.requestQueue[j].id >= nextId + Len(expected)
                   => r.requestQueue[j].device_id = newId
        /\ InEnqueueOrder(r.requestQueue)

\* C26 (as claimed): change_id(newId, merge = false) with an id different
\* from the current one, on the owner, enqueues the buffered events (if any)
\* and the end_session request (if a session is active) before the device id
\* is changed: both carry the old device_id and are ahead of every request
\* stamped with the new id.
C26_OldIdentityFirst ==
    inited /\ cluster.isMaster =>
        \A newId \in DeviceIds \ {device_id} : OldIdentityFirst(newId)

\* The same in an owner that has its app_key, where toRequestQueue accepts.
OldIdentityFirstWithKey == app_key # NULL => C26_OldIdentityFirst
\* The device id the store holds when Countly.init(conf) starts: none when the
\* file is missing or unreadable, holds null, or is being cleared.
Held(conf) ==
    IF conf.clear_stored_device_id \/ disk["cly_id"].t # "object" THEN NULL
    ELSE disk["cly_id"].ob["cly_id"]

IdTypes == {"SDK_GENERATED", "DEVELOPER_SUPPLIED"}

\* What Countly.init(conf) makes of it.
Identified(conf) ==
    /\ Held(conf) # NULL => device_id' = Held(conf)
    /\ Held(conf) = NULL /\ conf.device_id # NULL =>
           device_id' = conf.device_id /\ deviceIdType' = "DEVELOPER_SUPPLIED"
    /\ Held(conf) = NULL /\ conf.device_id = NULL =>
           device_id' = "uuid" /\ deviceIdType' = "SDK_GENERATED"

\* The store gives back the identity in use.
StoredIdentity ==
    /\ deviceIdType \in IdTypes
    /\ data["cly_id"] = Val(device_id)
    /\ data["cly_id_type"] = Val(deviceIdType)

\* C27: Countly.init on the owner takes the device id the store holds when it
\* holds one, else the supplied one, else a generated one; from then on, also
\* after change_id, the type is SDK_GENERATED or DEVELOPER_SUPPLIED and the
\* store's cly_id and cly_id_type are the identity in memory.
C27_IdentityIsStored ==
    /\ [][\A conf \in IdConfs : Countly_init_with(conf) => Identified(conf)]_vars
    /\ [](inited /\ cluster.isMaster => StoredIdentity)

\* The owner started on a developer id, stored or supplied, and change_id
\* replaced it; both files have been written.
C27_Witness ==
    /\ inited /\ device_id = "id2" /\ deviceIdType = "DEVELOPER_SUPPLIED"
    /\ disk["cly_id"] = Object("cly_id" :> "id2")
    /\ disk["cly_id_type"] = Object("cly_id_type" :> "DEVELOPER_SUPPLIED")
    /\ \E r \in Seq2Set(requestQueue) : r.device_id = "dev"
\* The responses that have arrived and wait for their "end" event.
Arrived == {http[i].res : i \in {j \in 1..Len(http) : http[j].res.arrived}}

\* A status in [200, 300).
Success2xx(statusCode) == statusCode.given /\ statusCode.code \in 200..299

\* C28: a response whose status is missing or outside [200, 300) is rejected
\* by the strict and by the broad validation whatever its body, status 300
\* included, and makeRequest then tells its callback the failure.
C28_BadStatusRejected ==
    /\ [](\A res \in Arrived : ~Success2xx(res.statusCode) =>
              \A str \in Texts \cup {NonString} :
                  /\ ~isResponseValid(res.statusCode, str)
                  /\ ~isResponseValidBroad(res.statusCode, str))
    /\ [][\A i \in 1..Len(http) :
              ResponseEnd(i) /\ ~Success2xx(http[i].res.statusCode)
                  => HttpCallback(i, TRUE)]_vars

\* The response to a dispatched request has status 300 and a body with a
\* result field.
C28_Witness ==
    \E i \in 1..Len(http) :
        /\ http[i].info = "heartBeat"
        /\ http[i].res = Response(Status(300), Body("object", {"result"}, 0))

\* What the claim says of a body under a status in [200, 300).
StrictAccepts(str) == str.form = "object" /\ "result" \in str.fields
BroadAccepts(str) == str.form = "object" \/ str.form = "array"

\* C29: under a status in [200, 300) the strict validation accepts exactly
\* the bodies that are JSON objects with a result field, the broad one every
\* JSON object and every JSON array, empty or not; both reject plain text,
\* the empty string and a value that is not a string.  makeRequest tells its
\* callback accordingly: strict for heartBeat, broad for fetch_remote_config.
C29_BodyDecides ==
    /\ [](\A res \in Arrived : Success2xx(res.statusCode) =>
              /\ isResponseValid(res.statusCode, res.str) = StrictAccepts(res.str)
              /\ isResponseValidBroad(res.statusCode, res.str) = BroadAccepts(res.str)
              /\ res.str.form \in {"text", "empty"} =>
                     /\ ~isResponseValid(res.statusCode, res.str)
                     /\ ~isResponseValidBroad(res.statusCode, res.str)
              /\ ~isResponseValid(res.statusCode, NonString)
              /\ ~isResponseValidBroad(res.statusCode, NonString))
    /\ [][\A i \in 1..Len(http) :
              ResponseEnd(i) /\ Success2xx(http[i].res.statusCode) =>
                  IF http[i].info = "heartBeat"
                  THEN HttpCallback(i, ~StrictAccepts(http[i].res.str))
                  ELSE HttpCallback(i, ~BroadAccepts(http[i].res.str))]_vars

\* A remote-config response of status 200 is an empty array, while a
\* dispatched request waits for its response.
C29_Witness ==
    /\ \E i \in 1..Len(http) :
           /\ http[i].info = "fetch_remote_config"
           /\ http[i].res = Response(Status(200), Body("array", {}, 0))
    /\ \E i \in 1..Len(http) : http[i].info = "heartBeat"
\* No queued request is with the transport or has been.
NoDispatch ==
    /\ \A i \in 1..Len(http) : http[i].info # "heartBeat"
    /\ sent = {} /\ delivered = {} /\ readyToProcess

\* A tick in test mode extends the session and flushes the event buffer as
\* any tick does, and hands over nothing.
TestModeTick ==
    LET L == Len(eventQueue)
        n == IF L <= maxEventBatch THEN L ELSE maxEventBatch
    IN  /\ eventQueue' = SubSeq(eventQueue, n + 1, L)
        /\ (sessionStarted /\ autoExtend /\ trackTime
               /\ now - lastBeat > sessionUpdate) => lastBeat' = now
        /\ http' = http

\* C30 (as claimed): with test mode on no tick pops the request queue or
\* calls the transport for a queued request, whatever is enqueued; session
\* extension and the flush of the event buffer still run, and the request
\* queue stays within its bound.
C30_TestModeHoldsQueue ==
    /\ [](test_mode => NoDispatch)
    /\ [][test_mode /\ HeartBeat => TestModeTick]_vars
    /\ [](test_mode => Len(requestQueue) <= queueSize)
\* The condition of heartBeat's session extension.
ExtensionDue ==
    sessionStarted /\ autoExtend /\ trackTime /\ now - lastBeat > sessionUpdate

\* The tick has enqueued, first of all, a session_duration request with the
\* elapsed time (overflow may have evicted it within the same tick).
ExtensionEnqueued ==
    /\ nextId' > nextId
    /\ \A r \in Enqueued :
           r.id = nextId => r = prepareRequest(State,
               Request(nextId, "session_duration", << now - lastBeat >>))
    /\ nextId \in {r.id : r \in Enqueued} \cup evicted'

\* C31 (as claimed): a tick with a session active, auto-extension and time
\* tracking on and more than sessionUpdate since the last heartbeat enqueues
\* a session_duration request with the elapsed time and resets the clock to
\* now; the clock is reset only when such a request is emitted, and a tick
\* with one of the conditions false enqueues no session_duration request.
C31_ExtendWhenDue ==
    [][HeartBeat =>
          /\ ExtensionDue => lastBeat' = now /\ ExtensionEnqueued
          /\ lastBeat' # lastBeat => ExtensionEnqueued
          /\ ~ExtensionDue =>
                 \A r \in Enqueued : r.kind # "session_duration"
      ]_vars

\* C31 (amended): a tick resets the clock to now exactly when the extension
\* is due; it then passes a session_duration request with the elapsed time
\* to toRequestQueue, which enqueues it when the owner has its app_key and
\* drops it otherwise; a tick with one of the conditions false leaves the
\* clock and enqueues no session_duration request.
C31_ExtendWhenDueAccepted ==
    [][HeartBeat =>
          /\ ExtensionDue =>
                 /\ lastBeat' = now
                 /\ app_key # NULL => ExtensionEnqueued
                 /\ app_key = NULL => nextId' = nextId
          /\ ~ExtensionDue =>
                 /\ lastBeat' = lastBeat
                 /\ \A r \in Enqueued : r.kind # "session_duration"
      ]_vars

\* A tick has queued the two seconds since the session began.
C31_Witness ==
    /\ sessionStarted /\ lastBeat = now
    /\ \E r \in Seq2Set(requestQueue) :
           r.kind = "session_duration" /\ r.events = << 2 >>
\* The requests in the queue or with the transport.
Pending == Seq2Set(requestQueue) \cup {http[i].params : i \in InFlight}

\* The request a tick has just handed to makeRequest after an earlier attempt
\* at it failed, if any.
Redelivered ==
    {http'[i].params : i \in {j \in 1..Len(http') :
        /\ j > Len(http) /\ http'[j].info = "heartBeat"
        /\ http'[j].params.id \in sent}}

\* C32 (as claimed): a request redelivered after a failed attempt is stamped
\* again with the identity of that moment: it is sent with the device id in
\* use at the redelivery.
C32_RestampedOnRedelivery ==
    [][\A r \in Redelivered : r.device_id = device_id']_vars

\* C32 (amended): a request is stamped once, when toRequestQueue enqueues it:
\* no step changes a pending request, a failed one goes back as it was, and
\* the tick that redelivers it hands over the queue's head as it is, with
\* the device id of its enqueue also after change_id.
C32_StampedOnceAtEnqueue ==
    [][/\ \A r \in Pending : \A q \in Pending' : q.id = r.id => q = r
       /\ \A r \in Redelivered :
              r \in Seq2Set(requestQueue) /\ r \in Pending]_vars

\* The first request, stamped under the generated id, is with the transport
\* again after a failure, and was handed over after change_id had enqueued a
\* request under the new id.
C32_Witness ==
    /\ failTimeout > 0 /\ device_id = "id2"
    /\ \E i \in InFlight :
           /\ http[i].params.id = 1 /\ http[i].params.device_id = "uuid"
           /\ \E r \in Seq2Set(requestQueue) :
                  r.device_id = "id2" /\ r.id < http[i].mark
\* C33: a failed file write does not stop the writes.  The step of the failure
\* leaves the cache and the waiting writes as they were and either frees the
\* lock (nothing waits) or schedules the oldest waiting write; in every state
\* a pending write is in flight or scheduled, and writes wait only while the
\* lock is held; a storeSet after the failure caches its value and adds its
\* write behind the pending ones, a write that starts takes the oldest waiting
\* one, and a write that succeeds leaves the value of its call in the file.
C33_FailedWriteGoesOn ==
    /\ [](/\ Backlog > 0 => asyncWriteLock /\ (writing # NoWrite \/ writeTimer > 0)
          /\ Len(asyncWriteQueue) > 0 /\ writing = NoWrite => writeTimer > 0)
    /\ [][/\ WriteFails =>
                /\ data' = data
                /\ asyncWriteQueue' = asyncWriteQueue
                /\ Pipeline' = Tail(Pipeline)
                /\ IF asyncWriteQueue = << >>
                   THEN ~asyncWriteLock' /\ writeTimer' = writeTimer
                   ELSE asyncWriteLock' /\ writeTimer' = writeTimer + 1
          /\ \A key \in StoreKeys, value \in JsonValues :
                 StoreSet(key, value) =>
                     /\ data'[key] = Val(value)
                     /\ Pipeline' = Append(Pipeline,
                                           [key |-> key, was |-> Val(value)])
          /\ WriteNext =>
                 /\ Pipeline' = Pipeline
                 /\ writing' = << [key |-> Pipeline[1].key,
                                   content |-> Pipeline[1].was,
                                   was |-> Pipeline[1].was] >>
          /\ (WriteDone /\ ~WriteFails) =>
                 disk'[writing[1].key] =
                     Stringify(writing[1].key, writing[1].was)
         ]_vars

\* A write of the key failed and left an empty file; the value set next for
\* that key is cached and its write, started behind the lock, is in flight.
C33_Witness ==
    /\ disk["cly_remote_configs"] = Empty
    /\ Len(writing) = 1
    /\ writing[1].key = "cly_remote_configs"
    /\ writing[1].content = data["cly_remote_configs"]
    /\ writeTimer = 0
    /\ asyncWriteLock

\* C34 (as claimed): the callback of a makeRequest call runs once: a request
\* that is in flight is not in the queue, a request reported as delivered is
\* not restored, and the queue never holds the same request twice.
C34_CallbackOnce ==
    /\ \A i, j \in 1..Len(requestQueue) :
           requestQueue[i].id = requestQueue[j].id => i = j
    /\ InFlightIds \cap QueueIds = {}
    /\ delivered \cap QueueIds = {}

\* The events a step takes out of the buffer.
Flushed == Seq2Set(eventQueue) \ Seq2Set(eventQueue')

\* C35 (as claimed): an event leaves the buffer only in a step that enqueues a
\* request holding it, and it is held by exactly one of the requests the step
\* enqueues; the events of an enqueued request are no longer in the buffer.
C35_FlushLosesNothing ==
    [][inited' =>
          /\ \A e \in Flushed :
                 Cardinality({r \in Enqueued :
                                 r.kind = "events" /\ e \in Seq2Set(r.events)}) = 1
          /\ \A r \in Enqueued :
                 r.kind = "events" =>
                     Seq2Set(r.events) \cap Seq2Set(eventQueue') = {}
      ]_vars

\* The same in an owner that has its app_key, where toRequestQueue accepts.
FlushLosesNothingWithKey ==
    [][(inited' /\ app_key # NULL) =>
          /\ \A e \in Flushed :
                 Cardinality({r \in Enqueued :
                                 r.kind = "events" /\ e \in Seq2Set(r.events)}) = 1
          /\ \A r \in Enqueued :
                 r.kind = "events" =>
                     Seq2Set(r.events) \cap Seq2Set(eventQueue') = {}
      ]_vars

\* The request is in the queue that the file text holds.
Lists(file, r) ==
    /\ file.t = "object"
    /\ "cly_queue" \in DOMAIN file.ob
    /\ r \in Seq2Set(file.ob["cly_queue"])

\* C36 (as claimed): while a dispatched request waits for its response, the
\* text of every cly_queue write handed to fs.writeFile lists it, and every
\* step that changes the cly_queue file (a write completing, forceStore)
\* leaves a file that lists it.
C36_InFlightStaysOnDisk ==
    /\ [](\A i \in InFlight : \A j \in 1..Len(writing) :
              writing[j].key = "cly_queue" =>
                  Lists(Stringify("cly_queue", writing[j].content),
                        http[i].params))
    /\ [][\A i \in InFlight :
              (/\ \E k \in 1..Len(http') : http'[k] = http[i]
               /\ disk'["cly_queue"] # disk["cly_queue"]) =>
                  Lists(disk'["cly_queue"], http[i].params)
         ]_vars

\* The same for the file alone, in a process that has exited through the
\* uncaughtException handler (forceStore has written the cached queue).
InFlightOnDiskAtExit ==
    exited => \A i \in InFlight : Lists(disk["cly_queue"], http[i].params)

\* The file lists the dispatched request at the moment it is popped.
OnDiskWhenPopped ==
    [][HeartBeat =>
          \A i \in 1..Len(http') :
              (i > Len(http) /\ http'[i].info = "heartBeat") =>
                  \/ Lists(disk["cly_queue"], http'[i].params)
                  \/ \E j \in 1..Len(writing') :
                         Lists(Stringify("cly_queue", writing'[j].content),
                               http'[i].params)
      ]_vars

\* Countly.change_id(newId, false) called now leaves an empty event buffer, and
\* every event recorded so far, the duration event of the open view (which
\* end_session records when a session is active) included, is in an events
\* request stamped with the identity in use (or that request has overflowed).
NoOldEventLeft(newId) ==
    LET r == change_id(State, newId, FALSE)
        old == Seq2Set(eventQueue) \cup
                   (IF sessionStarted /\ lastView # NULL THEN {nextEv} ELSE {})
    IN  /\ r.eventQueue = << >>
        /\ \A e \in old :
               \/ \E q \in Seq2Set(r.requestQueue) :
                      /\ q.kind = "events"
                      /\ e \in Seq2Set(q.events)
                      /\ q.device_id = device_id
               \/ r.evicted # evicted

\* C37 (as claimed): when change_id(newId, merge = false) with an id different
\* from the current one returns on the owner, the event buffer holds no event
\* recorded under the old identity: each is in a request stamped with the old
\* device_id.
C37_NoOldEventAfterChange ==
    inited /\ cluster.isMaster =>
        \A newId \in DeviceIds \ {device_id} : NoOldEventLeft(newId)

\* The same where toRequestQueue accepts and no view is open in a session.
NoOldEventWithoutView ==
    (app_key # NULL /\ ~(sessionStarted /\ lastView # NULL)) =>
        C37_NoOldEventAfterChange

\* The same where toRequestQueue accepts.
NoOldEventWithKey == app_key # NULL => C37_NoOldEventAfterChange

\* C38 (as claimed): every request that is pending, in the queue or in flight,
\* was enqueued after every request that overflow has evicted, and the
\* callback of a failed dispatch leaves a queue of at most queueSize requests.
C38_EvictsOldestPending ==
    /\ [](\A e \in evicted : \A r \in Pending : r.id > e)
    /\ [][\A i \in 1..Len(http) :
              DispatchFails(i) => Len(requestQueue') <= queueSize]_vars

\* The same for the requests in the queue alone: an evicted request is older
\* than every request that was in the queue with it and stayed.
EvictsOldestQueued ==
    [][\A e \in evicted' \ evicted :
          \A r \in Seq2Set(requestQueue) \cap Seq2Set(requestQueue') :
              r.id > e]_vars

\* C39 (as claimed): at most one chain of heartBeat timers is running, whatever
\* Countly.init and Countly.halt calls were made.
C39_OneTimerChain == heartBeatTimers <= 1

\* The same while Countly.halt has not been followed by a second Countly.init:
\* the chain started by the first init is the only one, and halt leaves it
\* running.
OneTimerChainUntilReinit ==
    [][/\ heartBeatTimers' >= heartBeatTimers
       /\ heartBeatTimers' > heartBeatTimers => ~inited /\ inited'
       /\ heartBeatTimers' <= heartBeatTimers + 1]_vars

====
